---- MODULE Spec2Model ----
(***************************************************************************)
(* Count-Min Sketch + min-heap tracker of the top K providers by net fee   *)
(* (src/src/claim_process/count_min_sketch.py) and the request path that   *)
(* feeds it (claim_repository.py, claim_processor.py, calculator.py,       *)
(* validator.py).                                                          *)
(*                                                                         *)
(* Amounts are whole currency units.  On that domain float(net_fee) and    *)
(* Decimal(str(x)) are exact (float64 represents every integer below 2^53  *)
(* and adds them without rounding), so a table cell and a Decimal total    *)
(* are both modelled by the integer they denote.  Fractional amounts,      *)
(* where float64 rounds, are outside the model.                            *)
(***************************************************************************)
EXTENDS Integers, Sequences, FiniteSets, TLC

VARIABLES
    k,              \* TopProvidersTracker.k
    sketch,         \* TopProvidersTracker.sketch: [width, depth, table, total_sum]
    other,          \* a second CountMinSketch, the argument of merge
    sha,            \* sha[seed][item]: the residue of int(sha256("salt_<seed>:<item>"), 16) that _hash reduces
    top_providers,  \* the heap list, a sequence of object references
    provider_map,   \* dict provider_npi -> object reference
    objs,           \* the ProviderNetFee objects alive: reference -> [net_fee_total, claim_count]
    claim_counts,   \* dict provider_npi -> int
    constructed,    \* a TopProvidersTracker instance exists
    db,             \* the claims table: [external_ids, count]
    lastCall,       \* the most recent call: "none", "add_claim", "add", "other.add", "merge", ...
    outcome,        \* how the most recent call ended: "none", "ok" or the exception raised
    nOps,           \* number of calls made so far
    trueTotal,      \* exact sum of the amounts added to sketch under each key since it was created or cleared
    otherTrue,      \* exact sum of the amounts added to other under each key
    nonneg,         \* no negative amount has been passed to add or add_claim so far
    threads,        \* per request thread: its position in add_claim and its locals
    nCalls,         \* number of add_claim calls made for each key
    global_tracker, \* the module variable _global_tracker: 0 for None, else the number of an instance
    instances,      \* the trackers built by get_tracker and reset_tracker: number -> add_claim calls applied to it
    callers,        \* per request thread: its position in get_tracker and the tracker it was handed
    returned,       \* the instances get_tracker has returned since the last reset_tracker
    previous        \* what get_top_k returned on the tracker that the last reset_tracker replaced

trackerVars == <<k, sketch, top_providers, provider_map, objs, claim_counts>>
heapVars == <<top_providers, provider_map, objs>>
registryVars == <<global_tracker, instances, callers, returned, previous>>
vars == <<k, sketch, other, sha, registryVars, top_providers, provider_map, objs, claim_counts,
          constructed, db, lastCall, outcome, nOps, trueTotal, otherTrue, nonneg,
          threads, nCalls>>

----------------------------------------------------------------------------
(* Bounds of the exploration *)

MaxEvents == 3
MaxAmount == 2

Keys == {"npi1", "npi2", "npi3"}
Amounts == (-1) .. MaxAmount
Ks == {1, 2}
\* <<width, depth>> of the sketches explored
SketchDims == {<<1, 1>>, <<2, 2>>, <<3, 1>>}

----------------------------------------------------------------------------
(* CountMinSketch *)

\* float('inf'), the start value of the minimum in estimate
Infinity == 1000000

Min2(a, b) == IF a < b THEN a ELSE b

\* CountMinSketch.__init__
NewSketch(width, depth) ==
    [width |-> width, depth |-> depth,
     table |-> [i \in 0 .. depth - 1 |-> [j \in 0 .. width - 1 |-> 0]],
     total_sum |-> 0]

\* CountMinSketch._hash: hash_value % self.width
hash(s, item, seed) == sha[seed][item] % s.width

\* mutant of add: the fee is taken off the cells and off total_sum
add_subtracting(s, provider_npi, net_fee) ==
    [s EXCEPT !.table = [i \in 0 .. s.depth - 1 |->
                            [s.table[i] EXCEPT ![hash(s, provider_npi, i)] = @ - net_fee]],
              !.total_sum = @ - net_fee]

\* mutant of add: only the first row's cell grows
add_first_row(s, provider_npi, net_fee) ==
    [s EXCEPT !.table = [i \in 0 .. s.depth - 1 |->
                            [s.table[i] EXCEPT ![hash(s, provider_npi, i)] =
                                IF i = 0 THEN @ + net_fee ELSE @]],
              !.total_sum = @ + net_fee]

\* CountMinSketch.add: every row's cell of the item grows by the fee, then total_sum
add(s, provider_npi, net_fee) ==
    [s EXCEPT !.table = [i \in 0 .. s.depth - 1 |->
                            [s.table[i] EXCEPT ![hash(s, provider_npi, i)] = @ + net_fee]],
              !.total_sum = @ + net_fee]

\* the exception add raises, "none" when it returns: _hash divides by width
add_raises(s) == IF s.depth > 0 /\ s.width = 0 THEN "ZeroDivisionError" ELSE "none"

RECURSIVE estimate_from(_, _, _, _)
estimate_from(s, provider_npi, i, min_estimate) ==
    IF i >= s.depth THEN min_estimate
    ELSE estimate_from(s, provider_npi, i + 1,
                       Min2(min_estimate, s.table[i][hash(s, provider_npi, i)]))

\* CountMinSketch.estimate: the minimum over the rows
estimate(s, provider_npi) == estimate_from(s, provider_npi, 0, Infinity)

----------------------------------------------------------------------------
(* heapq on a list of references, ordered by ProviderNetFee.__lt__ *)

\* mutant of lt: the comparison turned round (a max-heap)
lt_greater(store, a, b) == store[a].net_fee_total > store[b].net_fee_total

\* ProviderNetFee.__lt__
lt(store, a, b) == store[a].net_fee_total < store[b].net_fee_total

RECURSIVE siftdown_loop(_, _, _, _, _)
siftdown_loop(heap, store, newitem, startpos, pos) ==
    IF pos > startpos
    THEN LET parentpos == (pos - 1) \div 2
             parent == heap[parentpos + 1]
         IN  IF lt(store, newitem, parent)
             THEN siftdown_loop([heap EXCEPT ![pos + 1] = parent], store, newitem,
                                startpos, parentpos)
             ELSE [heap EXCEPT ![pos + 1] = newitem]
    ELSE [heap EXCEPT ![pos + 1] = newitem]

\* heapq._siftdown
siftdown(heap, store, startpos, pos) ==
    siftdown_loop(heap, store, heap[pos + 1], startpos, pos)

RECURSIVE siftup_loop(_, _, _, _)
siftup_loop(heap, store, pos, childpos) ==
    IF childpos < Len(heap)
    THEN LET rightpos == childpos + 1
             c == IF rightpos < Len(heap)
                     /\ ~lt(store, heap[childpos + 1], heap[rightpos + 1])
                  THEN rightpos ELSE childpos
         IN  siftup_loop([heap EXCEPT ![pos + 1] = heap[c + 1]], store, c, 2 * c + 1)
    ELSE [heap |-> heap, pos |-> pos]

\* heapq._siftup
siftup(heap, store, pos) ==
    LET newitem == heap[pos + 1]
        r == siftup_loop(heap, store, pos, 2 * pos + 1)
    IN  siftdown([r.heap EXCEPT ![r.pos + 1] = newitem], store, pos, r.pos)

RECURSIVE heapify_from(_, _, _)
heapify_from(x, store, i) ==
    IF i < 0 THEN x ELSE heapify_from(siftup(x, store, i), store, i - 1)

\* heapq.heapify
heapify(x, store) == heapify_from(x, store, (Len(x) \div 2) - 1)

\* heapq.heappush
heappush(heap, store, item) == siftdown(Append(heap, item), store, 0, Len(heap))

\* heapq.heappop: [item, heap]
heappop(heap, store) ==
    LET lastelt == heap[Len(heap)]
        rest == SubSeq(heap, 1, Len(heap) - 1)
    IN  IF rest # <<>>
        THEN [item |-> rest[1], heap |-> siftup([rest EXCEPT ![1] = lastelt], store, 0)]
        ELSE [item |-> lastelt, heap |-> rest]

----------------------------------------------------------------------------
(* TopProvidersTracker *)

\* dict.get(key, 0)
get(d, key) == IF key \in DOMAIN d THEN d[key] ELSE 0

\* d[key] = value
put(d, key, value) == [x \in DOMAIN d \cup {key} |-> IF x = key THEN value ELSE d[x]]

\* del d[key]
del(d, key) == [x \in DOMAIN d \ {key} |-> d[x]]

\* The references in use: by the heap and by the map
Referenced(heap, map) == {heap[i] : i \in 1 .. Len(heap)} \cup {map[x] : x \in DOMAIN map}

\* A fresh reference for a new ProviderNetFee(provider_npi, ...): the key and the
\* least generation no live object of that key has
NewRef(provider_npi) ==
    LET used == {r[2] : r \in {x \in DOMAIN objs : x[1] = provider_npi}}
    IN  <<provider_npi, CHOOSE g \in 0 .. Cardinality(used) : g \notin used>>

\* ProviderNetFee(provider_npi, net_fee_total, claim_count)
ProviderNetFee(provider_npi, net_fee_total, claim_count) ==
    [provider_npi |-> provider_npi, net_fee_total |-> net_fee_total,
     claim_count |-> claim_count]

\* Objects no longer referenced are dropped from the store
Collect(store, heap, map) == [r \in DOMAIN store \cap Referenced(heap, map) |-> store[r]]

\* mutant of update_tracked: the claim count is refreshed, the total is not
update_tracked_stale(provider_npi, net_fee_total, counts) ==
    LET provider == provider_map[provider_npi]
        store == [objs EXCEPT ![provider] =
                     ProviderNetFee(@.provider_npi, @.net_fee_total, get(counts, provider_npi))]
    IN  /\ objs' = store
        /\ top_providers' = heapify(top_providers, store)
        /\ UNCHANGED provider_map

\* mutant of update_tracked: the heap is not rebuilt after the update in place
update_tracked_no_heapify(provider_npi, net_fee_total, counts) ==
    LET provider == provider_map[provider_npi]
    IN  /\ objs' = [objs EXCEPT ![provider] =
                       ProviderNetFee(@.provider_npi, net_fee_total,
                                      get(counts, provider_npi))]
        /\ UNCHANGED <<top_providers, provider_map>>

\* TopProvidersTracker._update_top_k, branch 1: the provider is in provider_map
update_tracked(provider_npi, net_fee_total, counts) ==
    LET provider == provider_map[provider_npi]
        store == [objs EXCEPT ![provider] =
                     ProviderNetFee(@.provider_npi, net_fee_total, get(counts, provider_npi))]
    IN  /\ objs' = store
        /\ top_providers' = heapify(top_providers, store)
        /\ UNCHANGED provider_map

\* branch 2: fewer than k providers in the heap
update_insert(provider_npi, net_fee_total, counts) ==
    LET provider == NewRef(provider_npi)
        store == put(objs, provider,
                     ProviderNetFee(provider_npi, net_fee_total, get(counts, provider_npi)))
    IN  /\ objs' = store
        /\ top_providers' = heappush(top_providers, store, provider)
        /\ provider_map' = put(provider_map, provider_npi, provider)

\* mutant of update_evict: the evicted provider stays in provider_map
update_evict_keep_map(provider_npi, net_fee_total, counts) ==
    LET popped == heappop(top_providers, objs)
        provider == NewRef(provider_npi)
        store == put(objs, provider,
                     ProviderNetFee(provider_npi, net_fee_total, get(counts, provider_npi)))
        heap2 == heappush(popped.heap, store, provider)
        map2 == put(provider_map, provider_npi, provider)
    IN  /\ top_providers' = heap2
        /\ provider_map' = map2
        /\ objs' = Collect(store, heap2, map2)

\* mutant of update_evict: the admitted entry starts with a claim count of 1
update_evict_count_one(provider_npi, net_fee_total, counts) ==
    LET popped == heappop(top_providers, objs)
        removed == popped.item
        map1 == del(provider_map, objs[removed].provider_npi)
        provider == NewRef(provider_npi)
        store == put(objs, provider, ProviderNetFee(provider_npi, net_fee_total, 1))
        heap2 == heappush(popped.heap, store, provider)
        map2 == put(map1, provider_npi, provider)
    IN  /\ top_providers' = heap2
        /\ provider_map' = map2
        /\ objs' = Collect(store, heap2, map2)

\* branch 3: more net fees than the minimum in the heap: replace the minimum
update_evict(provider_npi, net_fee_total, counts) ==
    LET popped == heappop(top_providers, objs)
        removed == popped.item
        map1 == del(provider_map, objs[removed].provider_npi)
        provider == NewRef(provider_npi)
        store == put(objs, provider,
                     ProviderNetFee(provider_npi, net_fee_total, get(counts, provider_npi)))
        heap2 == heappush(popped.heap, store, provider)
        map2 == put(map1, provider_npi, provider)
    IN  /\ top_providers' = heap2
        /\ provider_map' = map2
        /\ objs' = Collect(store, heap2, map2)

\* mutant of exceeds_minimum: a tie evicts the incumbent
exceeds_minimum_or_equal(net_fee_total) ==
    net_fee_total >= objs[top_providers[1]].net_fee_total

\* mutant of exceeds_minimum: a total below the least one evicts
exceeds_minimum_below(net_fee_total) ==
    net_fee_total < objs[top_providers[1]].net_fee_total

\* mutant of exceeds_minimum: nothing evicts
exceeds_minimum_never(net_fee_total) ==
    net_fee_total > objs[top_providers[1]].net_fee_total /\ FALSE

\* net_fee_total > self.top_providers[0].net_fee_total
exceeds_minimum(net_fee_total) == net_fee_total > objs[top_providers[1]].net_fee_total

\* mutant of update_top_k: the heap counts as full one entry early
update_top_k_one_short(provider_npi, net_fee_total, counts) ==
    IF provider_npi \in DOMAIN provider_map
    THEN update_tracked(provider_npi, net_fee_total, counts)
    ELSE IF Len(top_providers) + 1 < k
    THEN update_insert(provider_npi, net_fee_total, counts)
    ELSE IF top_providers = <<>>
    THEN UNCHANGED heapVars
    ELSE IF exceeds_minimum(net_fee_total)
    THEN update_evict(provider_npi, net_fee_total, counts)
    ELSE UNCHANGED heapVars

\* TopProvidersTracker._update_top_k
update_top_k(provider_npi, net_fee_total, counts) ==
    IF provider_npi \in DOMAIN provider_map
    THEN update_tracked(provider_npi, net_fee_total, counts)
    ELSE IF Len(top_providers) < k
    THEN update_insert(provider_npi, net_fee_total, counts)
    ELSE IF top_providers = <<>>
    THEN UNCHANGED heapVars     \* self.top_providers[0] raises IndexError
    ELSE IF exceeds_minimum(net_fee_total)
    THEN update_evict(provider_npi, net_fee_total, counts)
    ELSE UNCHANGED heapVars

\* the exception _update_top_k raises, "none" when it returns: top_providers[0]
\* of an empty list, reached when k <= 0
update_top_k_raises(provider_npi) ==
    IF /\ provider_npi \notin DOMAIN provider_map
       /\ ~(Len(top_providers) < k)
       /\ top_providers = <<>>
    THEN "IndexError" ELSE "none"

\* the exception add_claim raises, "none" when it returns
add_claim_raises(provider_npi) ==
    IF add_raises(sketch) # "none" THEN add_raises(sketch)
    ELSE update_top_k_raises(provider_npi)

\* TopProvidersTracker.add_claim: sketch.add, claim_counts, estimate, _update_top_k
add_claim(provider_npi, net_fee) ==
    IF add_raises(sketch) # "none"
    THEN UNCHANGED trackerVars
    ELSE LET s1 == add(sketch, provider_npi, net_fee)
             counts == put(claim_counts, provider_npi, get(claim_counts, provider_npi) + 1)
             estimated_total == estimate(s1, provider_npi)
         IN  /\ sketch' = s1
             /\ claim_counts' = counts
             /\ update_top_k(provider_npi, estimated_total, counts)
             /\ UNCHANGED k

----------------------------------------------------------------------------
(* Sequential use of one tracker *)

\* TopProvidersTracker.__init__(k, width, depth)
NewTracker(k0, width, depth) ==
    /\ k = k0
    /\ sketch = NewSketch(width, depth)
    /\ top_providers = <<>>
    /\ provider_map = <<>>
    /\ objs = <<>>
    /\ claim_counts = <<>>

\* the request threads of the server's pool
Threads == {"t1", "t2"}

\* the value of a local that is not bound
NoRef == <<"none", 0>>

\* a thread that is not inside add_claim
Idle ==
    [pc |-> "idle", provider_npi |-> "none", net_fee |-> 0, i |-> 0, tmp |-> 0,
     min_estimate |-> 0, net_fee_total |-> 0, provider |-> NoRef, removed |-> NoRef]

NoCalls ==
    /\ threads = [t \in Threads |-> Idle]
    /\ db = [external_ids |-> {}, count |-> 0]
    /\ lastCall = "none"
    /\ outcome = "none"
    /\ nOps = 0
    /\ trueTotal = [x \in Keys |-> 0]
    /\ otherTrue = [x \in Keys |-> 0]
    /\ nonneg = TRUE
    /\ nCalls = [x \in Keys |-> 0]
    /\ global_tracker = 0
    /\ instances = <<>>
    /\ callers = [t \in Threads |-> [pc |-> "idle", tracker |-> 0]]
    /\ returned = {}
    /\ previous = <<>>

\* a tracker of one of the explored capacities and dimensions, with any hashing
\* of the keys to columns
Init ==
    /\ \E k0 \in Ks, d \in SketchDims :
          /\ NewTracker(k0, d[1], d[2])
          /\ sha \in [0 .. d[2] - 1 -> [Keys -> 0 .. d[1] - 1]]
          /\ other = NewSketch(d[1], d[2])
    /\ constructed = TRUE
    /\ NoCalls

\* one call tracker.add_claim(provider_npi, net_fee)
AddClaim ==
    \E provider_npi \in Keys, net_fee \in Amounts :
        /\ constructed
        /\ nOps < MaxEvents
        /\ add_claim(provider_npi, net_fee)
        /\ outcome' = IF add_claim_raises(provider_npi) = "none" THEN "ok"
                      ELSE add_claim_raises(provider_npi)
        /\ lastCall' = "add_claim"
        /\ nOps' = nOps + 1
        /\ trueTotal' = IF add_raises(sketch) = "none"
                        THEN [trueTotal EXCEPT ![provider_npi] = @ + net_fee]
                        ELSE trueTotal
        /\ nonneg' = (nonneg /\ net_fee >= 0)
        /\ nCalls' = [nCalls EXCEPT ![provider_npi] = @ + 1]
        /\ UNCHANGED <<other, sha, registryVars, constructed, db, otherTrue, threads>>

Next == AddClaim

Spec == Init /\ [][Next]_vars

----------------------------------------------------------------------------
(* Queries *)

RECURSIVE insert_asc(_, _, _)
\* mutant of insert_desc: ascending order
insert_asc(sorted, store, r) ==
    IF sorted = <<>> THEN <<r>>
    ELSE IF store[Head(sorted)].net_fee_total <= store[r].net_fee_total
    THEN <<Head(sorted)>> \o insert_asc(Tail(sorted), store, r)
    ELSE <<r>> \o sorted

RECURSIVE insert_desc(_, _, _)
\* place reference r after every element whose total is >= its own
insert_desc(sorted, store, r) ==
    IF sorted = <<>> THEN <<r>>
    ELSE IF store[Head(sorted)].net_fee_total >= store[r].net_fee_total
    THEN <<Head(sorted)>> \o insert_desc(Tail(sorted), store, r)
    ELSE <<r>> \o sorted

RECURSIVE sorted_desc(_, _, _)
\* sorted(heap, key=lambda x: x.net_fee_total, reverse=True): stable, equal
\* totals keep the order they have in the list
sorted_desc(heap, store, acc) ==
    IF heap = <<>> THEN acc
    ELSE sorted_desc(Tail(heap), store, insert_desc(acc, store, Head(heap)))

\* TopProvidersTracker.get_top_k: the entries, highest net fee first
get_top_k ==
    LET refs == sorted_desc(top_providers, objs, <<>>)
    IN  [i \in 1 .. Len(refs) |-> objs[refs[i]]]

\* the values tried for limit
Limits == -1 .. 3

\* seq[:limit]
slice_to(seq, limit) ==
    IF limit >= 0
    THEN SubSeq(seq, 1, IF limit < Len(seq) THEN limit ELSE Len(seq))
    ELSE SubSeq(seq, 1, IF Len(seq) + limit > 0 THEN Len(seq) + limit ELSE 0)

\* str(provider.net_fee_total): the total is Decimal(str(x)) of a float64 x, and
\* for a whole x that is the digits of x, a point and one 0
decimal_str(net_fee_total) == [units |-> net_fee_total, fraction |-> <<0>>]

\* mutant of get_top_providers: rank is the 0-based index
get_top_providers_rank0(limit) ==
    LET top == slice_to(get_top_k, limit)
    IN  [i \in 1 .. Len(top) |->
            [provider_npi |-> top[i].provider_npi,
             total_net_fees |-> decimal_str(top[i].net_fee_total),
             claim_count |-> top[i].claim_count,
             rank |-> i - 1]]

\* ClaimRepository.get_top_providers(limit); the i-th entry has idx = i - 1
get_top_providers(limit) ==
    LET top == slice_to(get_top_k, limit)
    IN  [i \in 1 .. Len(top) |->
            [provider_npi |-> top[i].provider_npi,
             total_net_fees |-> decimal_str(top[i].net_fee_total),
             claim_count |-> top[i].claim_count,
             rank |-> (i - 1) + 1]]

Abs(x) == IF x < 0 THEN -x ELSE x

\* mutant of is_discrepancy: the difference is compared without abs
is_discrepancy_signed(provider) ==
    (estimate(sketch, provider.provider_npi) - provider.net_fee_total) * 100 > 1

\* abs(sketch_estimate - provider.net_fee_total) > Decimal("0.01"), in hundredths
is_discrepancy(provider) ==
    Abs(estimate(sketch, provider.provider_npi) - provider.net_fee_total) * 100 > 1

\* str(d) of a Decimal d holding a whole amount: a sign and the digits
str_decimal(d) == [negative |-> d < 0, digits |-> Abs(d)]

\* TopProvidersTracker.verify_accuracy (max_error_estimate, a multiple of e, left out)
verify_accuracy ==
    [heap_size |-> Len(top_providers),
     total_providers |-> Cardinality(DOMAIN claim_counts),
     total_net_fees |-> str_decimal(sketch.total_sum),
     discrepancies |-> SelectSeq([i \in 1 .. Len(top_providers) |-> objs[top_providers[i]]],
                                 is_discrepancy)]

----------------------------------------------------------------------------
(* Construction *)

\* the values tried for k, width and depth
CtorArgs == {-1, 0, 1}

InitCtor ==
    /\ constructed = FALSE
    /\ NewTracker(0, 0, 0)
    /\ other = NewSketch(0, 0)
    /\ sha = [i \in {0} |-> [x \in Keys |-> 0]]
    /\ NoCalls

\* TopProvidersTracker(k, width, depth): CountMinSketch.__init__ stores width and
\* depth and allocates np.zeros((depth, width)), which raises ValueError on a
\* negative dimension and nothing else; k is stored unchecked
Construct ==
    \E k0 \in CtorArgs, width \in CtorArgs, depth \in CtorArgs :
        /\ ~constructed
        /\ IF width < 0 \/ depth < 0
           THEN /\ outcome' = "ValueError"
                /\ UNCHANGED <<constructed, trackerVars>>
           ELSE /\ outcome' = "ok"
                /\ constructed' = TRUE
                /\ k' = k0
                /\ sketch' = NewSketch(width, depth)
                /\ UNCHANGED <<top_providers, provider_map, objs, claim_counts>>
        /\ lastCall' = "TopProvidersTracker"
        /\ UNCHANGED <<other, sha, registryVars, db, nOps, trueTotal, otherTrue, nonneg, threads,
                       nCalls>>

NextCtor == Construct \/ AddClaim

SpecCtor == InitCtor /\ [][NextCtor]_vars

----------------------------------------------------------------------------
(* Two sketches: add and merge *)

SketchKeys == {"npi1", "npi2"}
\* <<width, depth>> of the two sketches
MergeDims == {<<1, 1>>, <<2, 1>>, <<2, 2>>}

\* mutant of merge: the other table replaces this one instead of being added
merge_replacing(s, o) ==
    IF s.width # o.width \/ s.depth # o.depth
    THEN [sketch |-> s, exc |-> "ValueError"]
    ELSE [sketch |-> [s EXCEPT !.table = o.table, !.total_sum = @ + o.total_sum],
          exc |-> "none"]

\* mutant of merge: no dimension check, the cells both tables have are added
merge_truncating(s, o) ==
    [sketch |-> [s EXCEPT !.table = [i \in 0 .. s.depth - 1 |->
                                       [j \in 0 .. s.width - 1 |->
                                           s.table[i][j]
                                           + IF i < o.depth /\ j < o.width
                                             THEN o.table[i][j] ELSE 0]],
                          !.total_sum = @ + o.total_sum],
     exc |-> "none"]

\* CountMinSketch.merge: [sketch, exc]
merge(s, o) ==
    IF s.width # o.width \/ s.depth # o.depth
    THEN [sketch |-> s, exc |-> "ValueError"]
    ELSE [sketch |-> [s EXCEPT !.table = [i \in 0 .. s.depth - 1 |->
                                            [j \in 0 .. s.width - 1 |->
                                                s.table[i][j] + o.table[i][j]]],
                               !.total_sum = @ + o.total_sum],
          exc |-> "none"]

\* mutant of clear: the table is zeroed, total_sum is kept
clear_table_only(s) ==
    [s EXCEPT !.table = [i \in 0 .. s.depth - 1 |-> [j \in 0 .. s.width - 1 |-> 0]]]

\* CountMinSketch.clear: table.fill(0), total_sum = Decimal("0.00")
clear(s) ==
    [s EXCEPT !.table = [i \in 0 .. s.depth - 1 |-> [j \in 0 .. s.width - 1 |-> 0]],
              !.total_sum = 0]

Max2(a, b) == IF a > b THEN a ELSE b

InitSketch ==
    /\ \E d \in MergeDims, o \in MergeDims :
          /\ NewTracker(1, d[1], d[2])
          /\ other = NewSketch(o[1], o[2])
          /\ sha \in [0 .. Max2(d[2], o[2]) - 1 ->
                         [Keys -> 0 .. Max2(d[1], o[1]) - 1]]
          /\ \A i \in DOMAIN sha : \A x \in Keys \ SketchKeys : sha[i][x] = 0
    /\ constructed = TRUE
    /\ NoCalls

\* sketch.add(provider_npi, net_fee)
SketchAdd ==
    \E provider_npi \in SketchKeys, net_fee \in Amounts :
        /\ nOps < MaxEvents
        /\ sketch' = add(sketch, provider_npi, net_fee)
        /\ trueTotal' = [trueTotal EXCEPT ![provider_npi] = @ + net_fee]
        /\ nonneg' = (nonneg /\ net_fee >= 0)
        /\ lastCall' = "add"
        /\ outcome' = "ok"
        /\ nOps' = nOps + 1
        /\ UNCHANGED <<k, heapVars, claim_counts, other, sha, registryVars, constructed, db, otherTrue,
                       threads, nCalls>>

\* other.add(provider_npi, net_fee)
OtherAdd ==
    \E provider_npi \in SketchKeys, net_fee \in Amounts :
        /\ nOps < MaxEvents
        /\ other' = add(other, provider_npi, net_fee)
        /\ otherTrue' = [otherTrue EXCEPT ![provider_npi] = @ + net_fee]
        /\ nonneg' = (nonneg /\ net_fee >= 0)
        /\ lastCall' = "other.add"
        /\ outcome' = "ok"
        /\ nOps' = nOps + 1
        /\ UNCHANGED <<trackerVars, sha, registryVars, constructed, db, trueTotal, threads, nCalls>>

\* sketch.merge(other)
Merge ==
    LET r == merge(sketch, other)
    IN  /\ nOps < MaxEvents
        /\ sketch' = r.sketch
        /\ outcome' = IF r.exc = "none" THEN "ok" ELSE r.exc
        /\ trueTotal' = IF r.exc = "none"
                        THEN [x \in Keys |-> trueTotal[x] + otherTrue[x]]
                        ELSE trueTotal
        /\ lastCall' = "merge"
        /\ nOps' = nOps + 1
        /\ UNCHANGED <<k, heapVars, claim_counts, other, sha, registryVars, constructed, db, otherTrue,
                       nonneg, threads, nCalls>>

\* sketch.clear()
Clear ==
    /\ nOps < MaxEvents
    /\ sketch' = clear(sketch)
    /\ trueTotal' = [x \in Keys |-> 0]
    /\ lastCall' = "clear"
    /\ outcome' = "ok"
    /\ nOps' = nOps + 1
    /\ UNCHANGED <<k, heapVars, claim_counts, other, sha, registryVars, constructed, db, otherTrue,
                   nonneg, threads, nCalls>>

NextSketch == SketchAdd \/ OtherAdd \/ Merge \/ Clear

SpecSketch == InitSketch /\ [][NextSketch]_vars

----------------------------------------------------------------------------
(* POST /claims: validation, net fee, persistence, tracker update *)

MaxRequests == 2

FeeValues == {-1, 0, 1}
MemberValues == {0, 1}
\* "none" stands for a request without external_claim_id
ExternalIds == {"none", "ext1"}

\* a claim line; the fields that are not amounts are taken to be well-formed
Lines ==
    [provider_npi : SketchKeys, provider_fees : FeeValues, allowed_fees : FeeValues,
     member_coinsurance : MemberValues, member_copay : MemberValues]

\* the line lists of the requests: none, one, or two lines of one provider
RequestLines ==
    {<<>>} \cup {<<l>> : l \in Lines}
           \cup {r \in {<<l, m>> : l \in Lines, m \in Lines} :
                      r[2].provider_npi = r[1].provider_npi}

\* ClaimValidator._validate_currency with min_value = 0: the value is not below it
validate_currency(value) == ~(value < 0)

\* ClaimValidator.validate_record: every amount field passes its rule
validate_record(line) ==
    /\ validate_currency(line.provider_fees)
    /\ validate_currency(line.allowed_fees)
    /\ validate_currency(line.member_coinsurance)
    /\ validate_currency(line.member_copay)

\* ClaimValidator.validate_claim_lines(...).is_valid
validate_claim_lines(lines) ==
    /\ lines # <<>>
    /\ \A i \in 1 .. Len(lines) : validate_record(lines[i])

\* NetFeeCalculator.calculate_line_net_fee
calculate_line_net_fee(line) ==
    line.provider_fees + line.member_coinsurance + line.member_copay - line.allowed_fees

RECURSIVE total_net_fee(_)
\* NetFeeCalculator.calculate_claim_totals(lines)['total_net_fee']
total_net_fee(lines) ==
    IF lines = <<>> THEN 0
    ELSE calculate_line_net_fee(Head(lines)) + total_net_fee(Tail(lines))

\* ClaimRepository.get_by_external_id(...) finds a claim
is_duplicate(external_claim_id) ==
    external_claim_id # "none" /\ external_claim_id \in db.external_ids

\* the default tracker of get_tracker(), scaled down: one slot, two columns, one row
InitSvc ==
    /\ NewTracker(1, 2, 1)
    /\ other = NewSketch(2, 1)
    /\ sha \in [{0} -> [Keys -> {0, 1}]]
    /\ \A x \in Keys \ {"npi2"} : sha[0][x] = 0
    /\ constructed = TRUE
    /\ NoCalls

\* the request is answered without a claim being stored
Rejected(status) ==
    /\ outcome' = status
    /\ UNCHANGED <<trackerVars, db, trueTotal, nonneg, nCalls>>

\* the claims table after session.add(claim) and a successful session.commit()
Committed(external_claim_id) ==
    [external_ids |->
         db.external_ids \cup (IF external_claim_id = "none" THEN {} ELSE {external_claim_id}),
     count |-> db.count + 1]

\* ClaimRepository.create: session.add, commit, refresh, then add_claim on the
\* tracker; an exception from any of them is re-raised after session.rollback(),
\* which undoes nothing once the commit is through.
\* commit_ok, refresh_ok: whether session.commit() and session.refresh() succeed
create(external_claim_id, provider_npi, net_fee, commit_ok, refresh_ok) ==
    IF ~commit_ok THEN Rejected("400")
    ELSE IF ~refresh_ok
    THEN /\ db' = Committed(external_claim_id)
         /\ outcome' = "400"
         /\ UNCHANGED <<trackerVars, trueTotal, nonneg, nCalls>>
    ELSE /\ db' = Committed(external_claim_id)
         /\ add_claim(provider_npi, net_fee)
         /\ outcome' = IF add_claim_raises(provider_npi) = "none" THEN "200" ELSE "400"
         /\ trueTotal' = IF add_raises(sketch) = "none"
                         THEN [trueTotal EXCEPT ![provider_npi] = @ + net_fee]
                         ELSE trueTotal
         /\ nonneg' = (nonneg /\ net_fee >= 0)
         /\ nCalls' = [nCalls EXCEPT ![provider_npi] = @ + 1]

\* main.process_claim -> ClaimProcessor.process_claim -> ClaimRepository.create
ProcessClaim ==
    \E external_claim_id \in ExternalIds, lines \in RequestLines :
        /\ nOps < MaxRequests
        /\ IF is_duplicate(external_claim_id) THEN Rejected("409")
           ELSE IF ~validate_claim_lines(lines) THEN Rejected("400")
           ELSE \E commit_ok \in BOOLEAN, refresh_ok \in BOOLEAN :
                   create(external_claim_id, lines[1].provider_npi,
                          total_net_fee(lines), commit_ok, refresh_ok)
        /\ lastCall' = "POST /claims"
        /\ nOps' = nOps + 1
        /\ UNCHANGED <<other, sha, registryVars, constructed, otherTrue, threads>>

NextSvc == ProcessClaim

SpecSvc == InitSvc /\ [][NextSvc]_vars

----------------------------------------------------------------------------
(* Request threads inside add_claim on the shared tracker.  No lock is      *)
(* taken anywhere on the path main.process_claim -> ClaimRepository.create  *)
(* -> add_claim, and the endpoint is a plain def, which the server runs on  *)
(* a thread pool.  A step is one statement's read or write of shared state; *)
(* the heapq calls are single steps.                                        *)

MaxCalls == 3

ConcKs == {1, 2}
ConcAmounts == {1}

\* the references the locals of the threads other than t hold
HeldByOthers(t) ==
    UNION {{threads[u].provider, threads[u].removed} : u \in Threads \ {t}}

\* thread t moves on with its record changed to rec
Goto(t, rec) == threads' = [threads EXCEPT ![t] = rec]

\* thread t leaves add_claim, by return (exc = "ok") or with exception exc; the
\* objects only its locals referred to go away
Leave(t, exc, heap, map, store) ==
    /\ threads' = [threads EXCEPT ![t] = Idle]
    /\ outcome' = exc
    /\ objs' = [r \in DOMAIN store \cap (Referenced(heap, map) \cup HeldByOthers(t))
                  |-> store[r]]

InitConc ==
    /\ \E k0 \in ConcKs : NewTracker(k0, 1, 1)
    /\ other = NewSketch(1, 1)
    /\ sha = [seed \in {0} |-> [x \in Keys |-> 0]]
    /\ constructed = TRUE
    /\ NoCalls

\* a request thread enters add_claim(provider_npi, net_fee) and sketch.add
Begin(t) ==
    \E provider_npi \in SketchKeys, net_fee \in ConcAmounts :
        /\ threads[t].pc = "idle"
        /\ nOps < MaxCalls
        /\ Goto(t, [Idle EXCEPT !.pc = "add_read", !.provider_npi = provider_npi,
                                !.net_fee = net_fee])
        /\ lastCall' = "add_claim"
        /\ nOps' = nOps + 1
        /\ trueTotal' = [trueTotal EXCEPT ![provider_npi] = @ + net_fee]
        /\ nonneg' = (nonneg /\ net_fee >= 0)
        /\ nCalls' = [nCalls EXCEPT ![provider_npi] = @ + 1]
        /\ UNCHANGED <<trackerVars, other, sha, registryVars, constructed, db, outcome, otherTrue>>

\* self.table[i][j] += fee_float, the read of the cell
AddRead(t) ==
    LET self == threads[t]
    IN  /\ self.pc = "add_read"
        /\ Goto(t, [self EXCEPT !.pc = "add_write",
                       !.tmp = sketch.table[self.i][hash(sketch, self.provider_npi, self.i)]])
        /\ UNCHANGED <<trackerVars, other, sha, registryVars, constructed, db, lastCall, outcome, nOps,
                       trueTotal, otherTrue, nonneg, nCalls>>

\* self.table[i][j] += fee_float, the store of the sum; then the next row
AddWrite(t) ==
    LET self == threads[t]
    IN  /\ self.pc = "add_write"
        /\ sketch' = [sketch EXCEPT
                         !.table[self.i][hash(sketch, self.provider_npi, self.i)] =
                             self.tmp + self.net_fee]
        /\ Goto(t, [self EXCEPT !.pc = IF self.i + 1 < sketch.depth THEN "add_read"
                                       ELSE "sum_read",
                                !.i = self.i + 1, !.tmp = 0])
        /\ UNCHANGED <<k, heapVars, claim_counts, other, sha, registryVars, constructed, db, lastCall,
                       outcome, nOps, trueTotal, otherTrue, nonneg, nCalls>>

\* self.total_sum += net_fee, the read
SumRead(t) ==
    LET self == threads[t]
    IN  /\ self.pc = "sum_read"
        /\ Goto(t, [self EXCEPT !.pc = "sum_write", !.tmp = sketch.total_sum, !.i = 0])
        /\ UNCHANGED <<trackerVars, other, sha, registryVars, constructed, db, lastCall, outcome, nOps,
                       trueTotal, otherTrue, nonneg, nCalls>>

\* self.total_sum += net_fee, the store
SumWrite(t) ==
    LET self == threads[t]
    IN  /\ self.pc = "sum_write"
        /\ sketch' = [sketch EXCEPT !.total_sum = self.tmp + self.net_fee]
        /\ Goto(t, [self EXCEPT !.pc = "count_read", !.tmp = 0])
        /\ UNCHANGED <<k, heapVars, claim_counts, other, sha, registryVars, constructed, db, lastCall,
                       outcome, nOps, trueTotal, otherTrue, nonneg, nCalls>>

\* self.claim_counts.get(provider_npi, 0)
CountRead(t) ==
    LET self == threads[t]
    IN  /\ self.pc = "count_read"
        /\ Goto(t, [self EXCEPT !.pc = "count_write",
                                !.tmp = get(claim_counts, self.provider_npi)])
        /\ UNCHANGED <<trackerVars, other, sha, registryVars, constructed, db, lastCall, outcome, nOps,
                       trueTotal, otherTrue, nonneg, nCalls>>

\* self.claim_counts[provider_npi] = ... + 1
CountWrite(t) ==
    LET self == threads[t]
    IN  /\ self.pc = "count_write"
        /\ claim_counts' = put(claim_counts, self.provider_npi, self.tmp + 1)
        /\ Goto(t, [self EXCEPT !.pc = "estimate", !.tmp = 0, !.i = 0,
                                !.min_estimate = Infinity])
        /\ UNCHANGED <<k, sketch, heapVars, other, sha, registryVars, constructed, db, lastCall,
                       outcome, nOps, trueTotal, otherTrue, nonneg, nCalls>>

\* sketch.estimate: one row of the loop; after the last row the result is
\* bound to _update_top_k's net_fee_total
EstimateRow(t) ==
    LET self == threads[t]
        m == Min2(self.min_estimate,
                  sketch.table[self.i][hash(sketch, self.provider_npi, self.i)])
    IN  /\ self.pc = "estimate"
        /\ Goto(t, IF self.i + 1 < sketch.depth
                   THEN [self EXCEPT !.i = self.i + 1, !.min_estimate = m]
                   ELSE [self EXCEPT !.pc = "test_map", !.i = 0, !.min_estimate = 0,
                                     !.net_fee_total = m])
        /\ UNCHANGED <<trackerVars, other, sha, registryVars, constructed, db, lastCall, outcome, nOps,
                       trueTotal, otherTrue, nonneg, nCalls>>

Frame == <<k, sketch, claim_counts, other, sha, registryVars, constructed, db, lastCall, nOps,
           trueTotal, otherTrue, nonneg, nCalls>>

\* if provider_npi in self.provider_map
TestMap(t) ==
    LET self == threads[t]
    IN  /\ self.pc = "test_map"
        /\ Goto(t, [self EXCEPT !.pc = IF self.provider_npi \in DOMAIN provider_map
                                       THEN "fetch" ELSE "test_len"])
        /\ UNCHANGED <<Frame, heapVars, outcome>>

\* provider = self.provider_map[provider_npi]
Fetch(t) ==
    LET self == threads[t]
    IN  /\ self.pc = "fetch"
        /\ IF self.provider_npi \in DOMAIN provider_map
           THEN /\ Goto(t, [self EXCEPT !.pc = "set_total",
                                        !.provider = provider_map[self.provider_npi]])
                /\ UNCHANGED <<objs, outcome>>
           ELSE Leave(t, "KeyError", top_providers, provider_map, objs)
        /\ UNCHANGED <<Frame, top_providers, provider_map>>

\* provider.net_fee_total = net_fee_total
SetTotal(t) ==
    LET self == threads[t]
    IN  /\ self.pc = "set_total"
        /\ objs' = [objs EXCEPT ![self.provider].net_fee_total = self.net_fee_total]
        /\ Goto(t, [self EXCEPT !.pc = "set_count"])
        /\ UNCHANGED <<Frame, top_providers, provider_map, outcome>>

\* provider.claim_count = self.claim_counts.get(provider_npi, 0)
SetCount(t) ==
    LET self == threads[t]
    IN  /\ self.pc = "set_count"
        /\ objs' = [objs EXCEPT ![self.provider].claim_count =
                                    get(claim_counts, self.provider_npi)]
        /\ Goto(t, [self EXCEPT !.pc = "heapify"])
        /\ UNCHANGED <<Frame, top_providers, provider_map, outcome>>

\* heapq.heapify(self.top_providers), and the return
Heapify(t) ==
    LET self == threads[t]
        heap == heapify(top_providers, objs)
    IN  /\ self.pc = "heapify"
        /\ top_providers' = heap
        /\ Leave(t, "ok", heap, provider_map, objs)
        /\ UNCHANGED <<Frame, provider_map>>

\* elif len(self.top_providers) < self.k
TestLen(t) ==
    LET self == threads[t]
    IN  /\ self.pc = "test_len"
        /\ Goto(t, [self EXCEPT !.pc = IF Len(top_providers) < k THEN "construct"
                                       ELSE "test_min"])
        /\ UNCHANGED <<Frame, heapVars, outcome>>

\* elif net_fee_total > self.top_providers[0].net_fee_total; the return when not
TestMin(t) ==
    LET self == threads[t]
    IN  /\ self.pc = "test_min"
        /\ IF top_providers = <<>>
           THEN Leave(t, "IndexError", top_providers, provider_map, objs)
           ELSE IF exceeds_minimum(self.net_fee_total)
           THEN Goto(t, [self EXCEPT !.pc = "pop"]) /\ UNCHANGED <<objs, outcome>>
           ELSE Leave(t, "ok", top_providers, provider_map, objs)
        /\ UNCHANGED <<Frame, top_providers, provider_map>>

\* removed = heapq.heappop(self.top_providers)
Pop(t) ==
    LET self == threads[t]
    IN  /\ self.pc = "pop"
        /\ IF top_providers = <<>>
           THEN /\ Leave(t, "IndexError", top_providers, provider_map, objs)
                /\ UNCHANGED top_providers
           ELSE LET popped == heappop(top_providers, objs)
                IN  /\ top_providers' = popped.heap
                    /\ Goto(t, [self EXCEPT !.pc = "del_map", !.removed = popped.item])
                    /\ UNCHANGED <<objs, outcome>>
        /\ UNCHANGED <<Frame, provider_map>>

\* del self.provider_map[removed.provider_npi]
DelMap(t) ==
    LET self == threads[t]
        key == objs[self.removed].provider_npi
    IN  /\ self.pc = "del_map"
        /\ IF key \in DOMAIN provider_map
           THEN /\ provider_map' = del(provider_map, key)
                /\ Goto(t, [self EXCEPT !.pc = "construct"])
                /\ UNCHANGED <<objs, outcome>>
           ELSE /\ Leave(t, "KeyError", top_providers, provider_map, objs)
                /\ UNCHANGED provider_map
        /\ UNCHANGED <<Frame, top_providers>>

\* provider = ProviderNetFee(provider_npi, net_fee_total, self.claim_counts.get(...))
NewProvider(t) ==
    LET self == threads[t]
        provider == NewRef(self.provider_npi)
    IN  /\ self.pc = "construct"
        /\ objs' = put(objs, provider,
                       ProviderNetFee(self.provider_npi, self.net_fee_total,
                                      get(claim_counts, self.provider_npi)))
        /\ Goto(t, [self EXCEPT !.pc = "push", !.provider = provider])
        /\ UNCHANGED <<Frame, top_providers, provider_map, outcome>>

\* heapq.heappush(self.top_providers, provider)
Push(t) ==
    LET self == threads[t]
    IN  /\ self.pc = "push"
        /\ top_providers' = heappush(top_providers, objs, self.provider)
        /\ Goto(t, [self EXCEPT !.pc = "map_put"])
        /\ UNCHANGED <<Frame, provider_map, objs, outcome>>

\* self.provider_map[provider_npi] = provider, and the return
MapPut(t) ==
    LET self == threads[t]
        map == put(provider_map, self.provider_npi, self.provider)
    IN  /\ self.pc = "map_put"
        /\ provider_map' = map
        /\ Leave(t, "ok", top_providers, map, objs)
        /\ UNCHANGED <<Frame, top_providers>>

\* a request thread serving GET /top-providers calls get_top_k while other
\* threads may be inside add_claim; the call is taken as one step (the list is
\* copied at once by sorted), which allows fewer observations than the code does
GetTopK(t) ==
    /\ threads[t].pc = "idle"
    /\ lastCall' = "get_top_k"
    /\ UNCHANGED <<trackerVars, other, sha, registryVars, constructed, db, outcome, nOps, trueTotal,
                   otherTrue, nonneg, threads, nCalls>>

NextConc ==
    \E t \in Threads :
        \/ Begin(t) \/ AddRead(t) \/ AddWrite(t) \/ SumRead(t) \/ SumWrite(t)
        \/ CountRead(t) \/ CountWrite(t) \/ EstimateRow(t)
        \/ TestMap(t) \/ Fetch(t) \/ SetTotal(t) \/ SetCount(t) \/ Heapify(t)
        \/ TestLen(t) \/ TestMin(t) \/ Pop(t) \/ DelMap(t) \/ NewProvider(t)
        \/ Push(t) \/ MapPut(t) \/ GetTopK(t)

SpecConc == InitConc /\ [][NextConc]_vars

\* no thread is inside add_claim
Quiescent == \A t \in Threads : threads[t].pc = "idle"

----------------------------------------------------------------------------
(* Properties *)

\* keys passed to add_claim so far
Seen == DOMAIN claim_counts

\* the stored totals of the entries in the heap
StoredTotals == {objs[top_providers[i]].net_fee_total : i \in 1 .. Len(top_providers)}

\* the least stored total in the heap (heap not empty)
MinStored == CHOOSE m \in StoredTotals : \A t \in StoredTotals : m <= t

\* no two of the keys seen share a column in any row
NoCollision ==
    \A x \in Seen, y \in Seen :
        x # y => \A i \in 0 .. sketch.depth - 1 : hash(sketch, x, i) # hash(sketch, y, i)

\* C1: for every key, estimate(key) is at least the exact sum of the amounts
\* added under that key, after any sequence of add calls.
C1_NonUndercount == \A x \in Keys : estimate(sketch, x) >= trueTotal[x]

\* C2 (as stated): after add_claim calls only, for any hashing, verify_accuracy
\* reports no discrepancy.
C2_NoDiscrepancyAnyHashing == verify_accuracy.discrepancies = <<>>

\* C2 (amended): after add_claim calls only, when no two keys seen share a
\* column in any row, verify_accuracy reports no discrepancy.
C2_NoDiscrepancyNoCollision == NoCollision => verify_accuracy.discrepancies = <<>>

C2_Witness ==
    /\ NoCollision
    /\ Cardinality(Seen) >= 2
    /\ Len(top_providers) = 2
    /\ nOps = 3
    /\ verify_accuracy.discrepancies = <<>>

\* C3: with non-negative amounts, no two keys colliding and pairwise distinct true
\* totals, get_top_k returns the min(k, number of keys seen) keys of highest true
\* total, in descending order of total.
C3_TopKCorrect ==
    ( /\ nonneg
      /\ NoCollision
      /\ \A x \in Seen, y \in Seen : x # y => trueTotal[x] # trueTotal[y] )
    => LET r == get_top_k
       IN  /\ Len(r) = Min2(k, Cardinality(Seen))
           /\ \A i \in 1 .. Len(r) :
                 /\ r[i].provider_npi \in Seen
                 /\ r[i].net_fee_total = trueTotal[r[i].provider_npi]
                 /\ Cardinality({y \in Seen : trueTotal[y] > trueTotal[r[i].provider_npi]})
                        = i - 1

C3_Witness ==
    /\ nonneg
    /\ NoCollision
    /\ Cardinality(Seen) = 3
    /\ k = 2
    /\ \A x \in Seen, y \in Seen : x # y => trueTotal[x] # trueTotal[y]
    /\ Len(get_top_k) = 2
    /\ get_top_k[1].provider_npi = "npi3"
    /\ get_top_k[2].provider_npi = "npi1"
    /\ trueTotal["npi2"] < trueTotal["npi1"]

\* C4: len(top_providers) == len(provider_map) <= k, the keys of the entries in
\* the heap are exactly the keys of provider_map, and each map value is the
\* entry of that key in the heap.
C4_HeapMapConsistent ==
    k >= 1 =>
        /\ Len(top_providers) = Cardinality(DOMAIN provider_map)
        /\ Len(top_providers) <= k
        /\ {objs[top_providers[i]].provider_npi : i \in 1 .. Len(top_providers)}
               = DOMAIN provider_map
        /\ \A x \in DOMAIN provider_map :
               /\ objs[provider_map[x]].provider_npi = x
               /\ \E i \in 1 .. Len(top_providers) : top_providers[i] = provider_map[x]

C4_Witness ==
    /\ Len(top_providers) = k
    /\ k = 2
    /\ Cardinality(Seen) = 3
    /\ Seen \ DOMAIN provider_map # {}

\* C5: with k entries in the heap, add_claim of an untracked key admits it, evicting
\* one entry, exactly when its fresh estimate is strictly greater than the least
\* stored total; otherwise top_providers and provider_map stay as they were.
C5_AdmissionAtThreshold ==
    [][\A x \in Keys :
          ( /\ nOps' = nOps + 1
            /\ x \in DOMAIN claim_counts'
            /\ claim_counts'[x] = get(claim_counts, x) + 1
            /\ Len(top_providers) = k
            /\ x \notin DOMAIN provider_map )
          => IF estimate(sketch', x) > MinStored
             THEN /\ x \in DOMAIN provider_map'
                  /\ Len(top_providers') = k
                  /\ \E y \in DOMAIN provider_map :
                        DOMAIN provider_map' = (DOMAIN provider_map \ {y}) \cup {x}
             ELSE UNCHANGED <<top_providers, provider_map, objs>>]_vars

\* a full heap and an untracked key whose estimate equals the least stored total
C5_Witness ==
    /\ Len(top_providers) = k
    /\ \E x \in Seen \ DOMAIN provider_map : estimate(sketch, x) = MinStored

\* C6: add_claim with a negative amount raises and leaves table, total_sum,
\* claim_counts, top_providers and provider_map as they were.
C6_NegativeRejected ==
    [][\A x \in Keys :
          trueTotal'[x] < trueTotal[x]
          => /\ outcome' \notin {"ok", "none"}
             /\ UNCHANGED <<sketch, claim_counts, top_providers, provider_map, objs>>]_vars

\* C7: no tracker or sketch instance with a non-positive width, depth or k exists:
\* construction with such a value fails.
C7_NoDegenerateInstance ==
    constructed => (k > 0 /\ sketch.width > 0 /\ sketch.depth > 0)

\* C10: merge with a sketch of another width or depth raises and leaves both
\* sketches (table, total_sum, width, depth) as they were.
C10_MergeMismatchRejected ==
    [][( /\ lastCall' = "merge"
         /\ nOps' = nOps + 1
         /\ (sketch.width # other.width \/ sketch.depth # other.depth) )
       => /\ outcome' = "ValueError"
          /\ sketch' = sketch
          /\ other' = other]_vars

\* a rejected merge of two sketches that both hold amounts
C10_Witness ==
    /\ lastCall = "merge"
    /\ outcome = "ValueError"
    /\ sketch.total_sum > 0
    /\ other.total_sum > 0

\* C9: every amount the request layer passes to add_claim is non-negative: a
\* stored claim never lowers the exact total of its provider.
C9_ForwardedNonNegative ==
    [][(lastCall' = "POST /claims" /\ nOps' = nOps + 1 /\ outcome' = "200")
       => \A x \in Keys : trueTotal'[x] >= trueTotal[x]]_vars

\* C8: add_claim calls made at the same time by several threads take effect one
\* after another: the heap never holds more than k entries, and whenever no
\* call is in progress the heap and provider_map hold the same keys.
C8_AddClaimAtomic ==
    /\ Len(top_providers) <= k
    /\ Quiescent =>
          {objs[top_providers[i]].provider_npi : i \in 1 .. Len(top_providers)}
              = DOMAIN provider_map

\* the cells of a sketch
Cells(s) == {<<i, j>> : i \in 0 .. s.depth - 1, j \in 0 .. s.width - 1}

\* C11: a merge of two sketches of the same dimensions adds the other table cell
\* by cell and the other total_sum, leaves the other sketch as it was, and gives
\* the table and total_sum that other.merge(sketch) would have given.
C11_MergeAccumulates ==
    [][(lastCall' = "merge" /\ nOps' = nOps + 1
        /\ sketch.width = other.width /\ sketch.depth = other.depth)
       => /\ outcome' = "ok"
          /\ \A c \in Cells(sketch) :
                sketch'.table[c[1]][c[2]]
                    = sketch.table[c[1]][c[2]] + other.table[c[1]][c[2]]
          /\ sketch'.total_sum = sketch.total_sum + other.total_sum
          /\ other' = other
          /\ sketch'.table = merge(other, sketch).sketch.table
          /\ sketch'.total_sum = merge(other, sketch).sketch.total_sum]_vars

\* a merge has just added a non-empty sketch into a non-empty one
C11_Witness ==
    /\ lastCall = "merge" /\ outcome = "ok"
    /\ other.total_sum > 0
    /\ sketch.total_sum > other.total_sum
    /\ sketch.table # other.table

\* C12: clear leaves every estimate and total_sum at 0 and keeps width and depth.
C12_ClearResets ==
    [][(lastCall' = "clear" /\ nOps' = nOps + 1)
       => /\ \A x \in Keys : estimate(sketch', x) = 0
          /\ sketch'.total_sum = 0
          /\ sketch'.width = sketch.width /\ sketch'.depth = sketch.depth]_vars

\* a clear has just emptied the sketch: of the two calls made the first was an
\* add of a negative amount, and not to the other sketch, which is still empty
C12_Witness ==
    /\ lastCall = "clear"
    /\ nOps = 2
    /\ ~nonneg
    /\ other = NewSketch(other.width, other.depth)
    /\ sketch.total_sum = 0

\* the keys add_claim was ever called with
KeysAdded == {x \in Keys : nCalls[x] > 0}

\* C13: get_top_k returns the entries of the heap, all of them and nothing
\* else, one per tracked key, each total at least the total of the entry after it.
C13_GetTopKSortedEntries ==
    LET r == get_top_k
    IN  /\ Len(r) = Len(top_providers)
        /\ {r[i] : i \in 1 .. Len(r)}
               = {objs[top_providers[i]] : i \in 1 .. Len(top_providers)}
        /\ \A i \in 1 .. Len(r), j \in 1 .. Len(r) :
               i # j => r[i].provider_npi # r[j].provider_npi
        /\ {r[i].provider_npi : i \in 1 .. Len(r)} = DOMAIN provider_map
        /\ \A i \in 1 .. Len(r) - 1 : r[i].net_fee_total >= r[i + 1].net_fee_total

\* two entries of different totals, which get_top_k returns in the reverse of
\* their order in the heap list
C13_Witness ==
    /\ Len(top_providers) = 2
    /\ get_top_k[1] = objs[top_providers[2]]
    /\ get_top_k[1].net_fee_total > get_top_k[2].net_fee_total

\* C14: get_top_k returns min(k, number of distinct keys ever added) entries,
\* and while fewer than k keys were added every one of them is returned.
C14_SizeIsMinOfKAndKeys ==
    LET r == get_top_k
    IN  /\ Len(r) = Min2(k, Cardinality(KeysAdded))
        /\ Cardinality(KeysAdded) < k
              => {r[i].provider_npi : i \in 1 .. Len(r)} = KeysAdded

\* one key added twice to a tracker of capacity 2: one entry
C14_Witness ==
    /\ k = 2
    /\ \E x \in Keys : KeysAdded = {x} /\ nCalls[x] = 2
    /\ Len(get_top_k) = 1

\* C15: claim_counts holds, for exactly the keys add_claim was called with, the
\* number of those calls, and every entry in the heap carries the count of its key.
C15_ExactClaimCounts ==
    /\ DOMAIN claim_counts = KeysAdded
    /\ \A x \in KeysAdded : claim_counts[x] = nCalls[x]
    /\ \A i \in 1 .. Len(top_providers) :
          objs[top_providers[i]].claim_count
              = nCalls[objs[top_providers[i]].provider_npi]

\* a full heap of one entry whose key was added twice, in three calls, while the
\* other key added stays outside the heap
C15_Witness ==
    /\ k = 1
    /\ nOps = 3
    /\ Len(top_providers) = 1
    /\ objs[top_providers[1]].claim_count = 2
    /\ \E y \in KeysAdded : y \notin DOMAIN provider_map /\ claim_counts[y] = 1

RECURSIVE SumOf(_, _)
\* the sum of f over the keys in S
SumOf(f, S) ==
    IF S = {} THEN 0
    ELSE LET x == CHOOSE y \in S : TRUE IN f[x] + SumOf(f, S \ {x})

\* C16: add_claim is called once for each claim stored and for no other request:
\* the calls made, and the counts in claim_counts, add up to the number of
\* claims in the database.
C16_OneEventPerStoredClaim ==
    /\ SumOf(nCalls, Keys) = db.count
    /\ SumOf(claim_counts, DOMAIN claim_counts) = db.count

\* C17: for limit >= 0, get_top_providers(limit) is the first
\* min(limit, number of entries) entries of get_top_k in their order, the i-th
\* with rank i, and it is empty when no claim has been processed.
C17_RankedQuery ==
    \A limit \in {l \in Limits : l >= 0} :
        LET r == get_top_providers(limit)
            t == get_top_k
        IN  /\ Len(r) = Min2(limit, Len(t))
            /\ \A i \in 1 .. Len(r) :
                  /\ r[i].provider_npi = t[i].provider_npi
                  /\ r[i].claim_count = t[i].claim_count
                  /\ r[i].total_net_fees.units = t[i].net_fee_total
                  /\ r[i].rank = i
            /\ nOps = 0 => r = <<>>

\* two entries tracked: a limit of 1 returns the first only, a limit of 3 both,
\* ranked 1 and 2
C17_Witness ==
    /\ Len(get_top_k) = 2
    /\ Len(get_top_providers(1)) = 1
    /\ get_top_providers(1)[1].provider_npi = get_top_k[1].provider_npi
    /\ Len(get_top_providers(3)) = 2
    /\ get_top_providers(3)[2].rank = 2
    /\ get_top_providers(0) = <<>>

\* no cell of s1 is negative or below the same cell of s0, nor is its total_sum
NotLowered(s0, s1) ==
    /\ \A c \in Cells(s0) :
          /\ s1.table[c[1]][c[2]] >= s0.table[c[1]][c[2]]
          /\ s1.table[c[1]][c[2]] >= 0
    /\ s1.total_sum >= s0.total_sum

\* C18: while only non-negative amounts have been added, an add or a merge
\* leaves no cell negative, lowers no cell and does not lower total_sum; a step
\* that lowers a cell or total_sum is a clear.
C18_MonotoneCounters ==
    [][nonneg' =>
          /\ NotLowered(other, other')
          /\ (lastCall' # "clear" => NotLowered(sketch, sketch'))
          /\ (~NotLowered(sketch, sketch') => lastCall' = "clear")]_vars

\* after adds to both sketches of non-negative amounts, a merge has raised a cell
C18_Witness ==
    /\ nonneg
    /\ lastCall = "merge" /\ outcome = "ok"
    /\ nOps = 3
    /\ other.total_sum > 0
    /\ sketch.total_sum > other.total_sum
    /\ \E c \in Cells(sketch) : sketch.table[c[1]][c[2]] > other.table[c[1]][c[2]]

\* C19: after every step top_providers[0] has a stored total no greater than
\* any other entry's, and a key that leaves provider_map is gone from the heap
\* too and had the least stored total.
C19_EvictionCandidateIsMinimum ==
    [][/\ \A i \in 1 .. Len(top_providers') :
             objs'[top_providers'[1]].net_fee_total
                 <= objs'[top_providers'[i]].net_fee_total
       /\ \A y \in DOMAIN provider_map \ DOMAIN provider_map' :
             /\ objs[provider_map[y]].net_fee_total = MinStored
             /\ \A i \in 1 .. Len(top_providers') :
                   objs'[top_providers'[i]].provider_npi # y]_vars

\* an eviction has happened: capacity 1, one column, two keys added once each
\* with positive amounts, and the tracked entry's total is the sum of both, so
\* its key came second and replaced the first
C19_Witness ==
    /\ k = 1
    /\ sketch.width = 1
    /\ nOps = 2
    /\ \E a \in Keys, b \in Keys :
          /\ a # b
          /\ nCalls[a] = 1 /\ nCalls[b] = 1
          /\ trueTotal[a] > 0 /\ trueTotal[b] > 0
          /\ DOMAIN provider_map = {b}
          /\ objs[top_providers[1]].net_fee_total = sketch.total_sum

\* C21: an add_claim for a key already in provider_map sets that entry's total
\* to the estimate taken after the amount was added and its count to
\* claim_counts[key], and leaves the tracked keys, the heap size and every
\* other entry's total and count as they were.
C21_InPlaceUpdate ==
    [][\A x \in DOMAIN provider_map :
          nCalls'[x] = nCalls[x] + 1 =>
              /\ DOMAIN provider_map' = DOMAIN provider_map
              /\ Len(top_providers') = Len(top_providers)
              /\ objs'[provider_map'[x]].net_fee_total = estimate(sketch', x)
              /\ objs'[provider_map'[x]].claim_count = claim_counts'[x]
              /\ \A y \in DOMAIN provider_map \ {x} :
                    objs'[provider_map'[y]] = objs[provider_map[y]]]_vars

\* capacity 2 and three calls, two of them for one tracked key: that key was
\* inserted by its first call and updated in place by its second, beside
\* another tracked entry with a positive total
C21_Witness ==
    /\ k = 2
    /\ nOps = 3
    /\ \E x \in DOMAIN provider_map, y \in DOMAIN provider_map :
          /\ x # y
          /\ nCalls[x] = 2 /\ nCalls[y] = 1
          /\ objs[provider_map[x]].claim_count = 2
          /\ objs[provider_map[x]].net_fee_total > objs[provider_map[y]].net_fee_total
          /\ objs[provider_map[y]].net_fee_total > 0

\* C22: a get_top_k that runs while add_claim calls are in progress sees no
\* intermediate state: every entry it returns has its key in provider_map, and
\* once provider_map holds k keys it returns exactly k entries.
C22_NoTornRead ==
    [][(lastCall' = "get_top_k" /\ UNCHANGED <<trackerVars, threads>>) =>
          /\ \A i \in 1 .. Len(get_top_k) :
                get_top_k[i].provider_npi \in DOMAIN provider_map
          /\ Cardinality(DOMAIN provider_map) >= k => Len(get_top_k) = k]_vars

----------------------------------------------------------------------------
(* The module-level tracker: get_tracker and reset_tracker.  Request        *)
(* threads call get_tracker and then add_claim on what it returned          *)
(* (ClaimRepository.create); the module variable is read and written        *)
(* without a lock.  A tracker built here is seen as the number of add_claim *)
(* calls applied to it.                                                     *)

MaxInstances == 2

\* what these steps leave alone outside the registry and the call log
NotRegistry == <<trackerVars, other, sha, constructed, db, trueTotal, otherTrue, nonneg,
                 threads, nCalls>>

\* get_tracker: `if _global_tracker is None`, the read of the module variable
GetTrackerTest(t) ==
    /\ callers[t].pc = "idle"
    /\ nOps < MaxCalls
    /\ callers' = [callers EXCEPT ![t].pc = IF global_tracker = 0 THEN "create"
                                            ELSE "return"]
    /\ lastCall' = "get_tracker"
    /\ nOps' = nOps + 1
    /\ UNCHANGED <<NotRegistry, outcome, global_tracker, instances, returned, previous>>

\* get_tracker: `_global_tracker = TopProvidersTracker()`
GetTrackerCreate(t) ==
    /\ callers[t].pc = "create"
    /\ instances' = Append(instances, 0)
    /\ global_tracker' = Len(instances) + 1
    /\ callers' = [callers EXCEPT ![t].pc = "return"]
    /\ UNCHANGED <<NotRegistry, lastCall, outcome, nOps, returned, previous>>

\* get_tracker: `return _global_tracker`, a second read of the module variable
GetTrackerReturn(t) ==
    /\ callers[t].pc = "return"
    /\ callers' = [callers EXCEPT ![t] = [pc |-> "have", tracker |-> global_tracker]]
    /\ returned' = returned \cup {global_tracker}
    /\ UNCHANGED <<NotRegistry, lastCall, outcome, nOps, global_tracker, instances,
                   previous>>

\* tracker.add_claim(...) on the instance the thread was handed
TrackerAddClaim(t) ==
    /\ callers[t].pc = "have"
    /\ instances' = [instances EXCEPT ![callers[t].tracker] = @ + 1]
    /\ callers' = [callers EXCEPT ![t] = [pc |-> "idle", tracker |-> 0]]
    /\ UNCHANGED <<NotRegistry, lastCall, outcome, nOps, global_tracker, returned,
                   previous>>

\* the (provider_npi, net_fee_total) pairs of a list of entries, in its order
Pairs(entries) ==
    [i \in 1 .. Len(entries) |-> <<entries[i].provider_npi, entries[i].net_fee_total>>]

\* reset_tracker(): `_global_tracker = TopProvidersTracker()`, called between
\* requests (the test fixtures).  The new tracker keeps the explored capacity
\* and dimensions in place of the defaults (k=10, 2719 x 5); the counts kept
\* about the tracker start again.
ResetTracker ==
    /\ \A t \in Threads : callers[t].pc = "idle"
    /\ Len(instances) < MaxInstances
    /\ instances' = Append(instances, 0)
    /\ global_tracker' = Len(instances) + 1
    /\ returned' = {}
    /\ previous' = Pairs(get_top_k)
    /\ k' = k
    /\ sketch' = NewSketch(sketch.width, sketch.depth)
    /\ top_providers' = <<>>
    /\ provider_map' = <<>>
    /\ objs' = <<>>
    /\ claim_counts' = <<>>
    /\ lastCall' = "reset_tracker"
    /\ outcome' = "ok"
    /\ nOps' = 0
    /\ trueTotal' = [x \in Keys |-> 0]
    /\ nCalls' = [x \in Keys |-> 0]
    /\ nonneg' = TRUE
    /\ UNCHANGED <<other, sha, constructed, db, otherTrue, threads, callers>>

\* the module just imported: _global_tracker is None
InitSingleton ==
    /\ NewTracker(1, 1, 1)
    /\ other = NewSketch(1, 1)
    /\ sha = [seed \in {0} |-> [x \in Keys |-> 0]]
    /\ constructed = TRUE
    /\ NoCalls

NextSingleton ==
    \/ \E t \in Threads :
          \/ GetTrackerTest(t) \/ GetTrackerCreate(t) \/ GetTrackerReturn(t)
          \/ TrackerAddClaim(t)
    \/ ResetTracker

SpecSingleton == InitSingleton /\ [][NextSingleton]_vars

\* C23: between two reset_tracker calls every get_tracker call returns the same
\* instance, also when the first calls run at the same time, so no add_claim is
\* applied to an instance other than the one later calls get; and reset_tracker
\* installs a fresh tracker with empty heap, map and counts and a zeroed sketch.
C23_SingleInstance ==
    [][/\ Cardinality(returned') <= 1
       /\ \A id \in returned' : instances'[id] > 0 => id = global_tracker'
       /\ lastCall' = "reset_tracker" /\ global_tracker' # global_tracker =>
             /\ top_providers' = <<>> /\ provider_map' = <<>> /\ claim_counts' = <<>>
             /\ sketch' = NewSketch(sketch.width, sketch.depth)
             /\ instances'[global_tracker'] = 0]_vars

----------------------------------------------------------------------------
(* One tracker after another: add_claim calls, reset_tracker, add_claim     *)
(* calls on the new tracker.                                                *)

\* a tracker of capacity 2 over a 2 x 1 sketch; the third key shares the column
\* of the first
InitTie ==
    /\ NewTracker(2, 2, 1)
    /\ other = NewSketch(2, 1)
    /\ sha = [seed \in {0} |-> [x \in Keys |-> IF x = "npi2" THEN 1 ELSE 0]]
    /\ constructed = TRUE
    /\ NoCalls

NextTie == AddClaim \/ ResetTracker

SpecTie == InitTie /\ [][NextTie]_vars

\* the elements of a sequence
Range(seq) == {seq[i] : i \in 1 .. Len(seq)}

\* C24: get_top_k orders entries of equal net_fee_total by a rule on the
\* entries themselves, so a tracker that holds the same (key, total) entries
\* as the tracker before it held returns them in the same order, whatever the
\* order the claims arrived in.
C24_TieOrderByEntries ==
    (previous # <<>> /\ Range(Pairs(get_top_k)) = Range(previous))
        => Pairs(get_top_k) = previous

----------------------------------------------------------------------------
(* A tracker whose sketch is also merged into and cleared from outside,     *)
(* and verify_accuracy.                                                     *)

\* a tracker over a 2 x 1 sketch and a second sketch of the same dimensions;
\* the first key hashes to column 0, the others to any column
InitAudit ==
    /\ \E k0 \in Ks : NewTracker(k0, 2, 1)
    /\ other = NewSketch(2, 1)
    /\ sha \in [{0} -> [Keys -> 0 .. 1]]
    /\ sha[0]["npi1"] = 0
    /\ constructed = TRUE
    /\ NoCalls

\* tracker.verify_accuracy()
VerifyAccuracy ==
    /\ lastCall' = "verify_accuracy"
    /\ outcome' = "ok"
    /\ UNCHANGED <<trackerVars, other, sha, registryVars, constructed, db, nOps, trueTotal,
                   otherTrue, nonneg, threads, nCalls>>

NextAudit == AddClaim \/ OtherAdd \/ Merge \/ Clear \/ VerifyAccuracy

SpecAudit == InitAudit /\ [][NextAudit]_vars

\* the Decimal a string written by str_decimal denotes
decimal_of(str) == IF str.negative THEN 0 - str.digits ELSE str.digits

\* the entries in the heap whose stored total is more than 0.01 away from the
\* estimate the sketch gives now
Apart ==
    {e \in {objs[top_providers[i]] : i \in 1 .. Len(top_providers)} :
        \/ (estimate(sketch, e.provider_npi) - e.net_fee_total) * 100 > 1
        \/ (e.net_fee_total - estimate(sketch, e.provider_npi)) * 100 > 1}

\* C25: in any state, also after the tracker's sketch was merged into or
\* cleared from outside, verify_accuracy reports heap_size = len(top_providers),
\* total_providers = the number of distinct keys passed to add_claim,
\* total_net_fees = sketch.total_sum and as discrepancies exactly the entries
\* in the heap whose stored total is more than 0.01 away from the present
\* estimate; and the call changes nothing in the tracker or the sketch.
C25_VerifyAccuracyReport ==
    [][/\ verify_accuracy'.heap_size = Len(top_providers')
       /\ verify_accuracy'.total_providers = Cardinality({x \in Keys : nCalls'[x] > 0})
       /\ decimal_of(verify_accuracy'.total_net_fees) = sketch'.total_sum
       /\ Range(verify_accuracy'.discrepancies) = Apart'
       /\ Len(verify_accuracy'.discrepancies) = Cardinality(Apart')
       /\ lastCall' = "verify_accuracy" /\ lastCall # "verify_accuracy"
             => UNCHANGED <<trackerVars, other>>]_vars

\* verify_accuracy was called after a clear from outside: no negative amount
\* was ever added, yet total_sum is 0 while the heap holds two entries with
\* positive stored totals, both reported
C25_Witness ==
    /\ lastCall = "verify_accuracy"
    /\ nonneg
    /\ sketch.total_sum = 0
    /\ Len(top_providers) = 2
    /\ \A i \in 1 .. 2 : objs[top_providers[i]].net_fee_total > 0
    /\ Len(verify_accuracy.discrepancies) = 2

RECURSIVE RowSum(_, _, _)
\* the sum of the cells 0 .. j - 1 of row i of sketch s
RowSum(s, i, j) == IF j = 0 THEN 0 ELSE s.table[i][j - 1] + RowSum(s, i, j - 1)

\* every row of s sums to s.total_sum
RowsSumToTotal(s) == \A i \in 0 .. s.depth - 1 : RowSum(s, i, s.width) = s.total_sum

\* C27: in every state reached by add, merge of a sketch that has the same
\* property, and clear, the cells of each row of a sketch sum to its total_sum.
C27_RowSumsEqualTotal == RowsSumToTotal(sketch) /\ RowsSumToTotal(other)

\* a sketch of two rows and two columns after a merge that succeeded, with a
\* non-zero total spread over both columns of a row
C27_Witness ==
    /\ lastCall = "merge" /\ outcome = "ok"
    /\ sketch.depth = 2 /\ sketch.width = 2
    /\ sketch.total_sum # 0
    /\ sketch.table[0][0] # 0 /\ sketch.table[0][1] # 0
    /\ otherTrue # [x \in Keys |-> 0]

\* C28: as long as every amount is non-negative, once the heap holds k entries
\* the least stored total does not decrease in any later add_claim call.
C28_RisingThreshold ==
    [][(nonneg' /\ Len(top_providers) = k) => MinStored' >= MinStored]_vars

\* the least stored total has risen while the heap was full: capacity 1, one
\* column, two keys added once each with positive amounts, and the single
\* entry holds the sum of both, above what the first key was stored with
C28_Witness ==
    /\ nonneg
    /\ k = 1 /\ Len(top_providers) = 1
    /\ sketch.width = 1
    /\ nOps = 2
    /\ Cardinality(KeysAdded) = 2
    /\ \A x \in KeysAdded : trueTotal[x] > 0
    /\ MinStored = sketch.total_sum

\* C29: with no two keys sharing a column and non-negative amounts, every key
\* passed to add_claim that is not in provider_map has a present estimate no
\* greater than the least stored total in the heap.
C29_UntrackedBelowThreshold ==
    (NoCollision /\ nonneg /\ top_providers # <<>>) =>
        \A x \in KeysAdded \ DOMAIN provider_map : estimate(sketch, x) <= MinStored

\* with collision-free hashing and non-negative amounts, a key was added with a
\* positive amount, is not tracked, and its estimate is below the least
\* stored total of a full heap of two
C29_Witness ==
    /\ NoCollision /\ nonneg
    /\ k = 2 /\ Len(top_providers) = 2
    /\ \E x \in KeysAdded \ DOMAIN provider_map :
          /\ estimate(sketch, x) > 0
          /\ estimate(sketch, x) < MinStored

====
